---- MODULE Spec2Model ----
(***************************************************************************)
(* The interactive payroll programs of the repository: A_E.cpp and its     *)
(* two near-duplicates DeepSeek.cpp and Test_code.cpp.  A state is the     *)
(* program blocked at one getline(cin, ...); a step reads one line and     *)
(* runs the code up to the next getline (or to the end of the process).    *)
(*                                                                         *)
(* A line of text is a sequence of one-character strings.  A double is     *)
(* modelled as the exact decimal m / 10^s it is written as (binary         *)
(* rounding is not modelled); an int keeps its 32-bit range, which is what *)
(* std::stoi checks.                                                       *)
(***************************************************************************)
EXTENDS Integers, Sequences, FiniteSets, TLC

VARIABLES prog,       \* which program runs: "A_E", "DeepSeek" or "Test_code"
          pc,         \* the getline the program is blocked at, or how it ended
          type,       \* addEmployee's parameter (0 outside addEmployee)
          id,         \* addEmployee's local id   (NoVal until accepted)
          name,       \* addEmployee's local name (NoVal until accepted)
          rate,       \* addEmployee's local salary / rate (NoVal until accepted)
          employees,  \* PayrollSystem::employees, in vector order
          line,       \* the line the last getline read, as read
          out         \* what the last step printed after reading (prompts and menu left out)

vars == <<prog, pc, type, id, name, rate, employees, line, out>>

\* The registry is capped so that the state space is finite.
MaxEmployees == 2

NoVal == <<>>

-----------------------------------------------------------------------------
(* <cctype>, "C" locale *)

DigitChars == <<"0", "1", "2", "3", "4", "5", "6", "7", "8", "9">>

Lower == {"a", "b", "c", "d", "e", "f", "g", "h", "i", "j", "k", "l", "m",
          "n", "o", "p", "q", "r", "s", "t", "u", "v", "w", "x", "y", "z"}

Upper == {"A", "B", "C", "D", "E", "F", "G", "H", "I", "J", "K", "L", "M",
          "N", "O", "P", "Q", "R", "S", "T", "U", "V", "W", "X", "Y", "Z"}

Digits == {DigitChars[k] : k \in 1..10}

isdigit(c) == c \in Digits

isalpha(c) == c \in Lower \cup Upper

isalnum(c) == isalpha(c) \/ isdigit(c)

\* space, \t, \n, \v, \f, \r; a line read by getline holds no \n, and \v has
\* no TLA+ escape, so neither is listed.
isspace(c) == c \in {" ", "\t", "\f", "\r"}

DigitVal(c) == (CHOOSE k \in 1..10 : DigitChars[k] = c) - 1

-----------------------------------------------------------------------------
(* <string>: std::stoi, std::stod *)

INT_MAX == 2147483647

\* DBL_MAX is about 1.8e308: its integer part has DBL_MAX_10_EXP + 1 digits.
DBL_MAX_10_EXP == 308

\* The least element of a non-empty set of numbers.
Min(S) == CHOOSE x \in S : \A y \in S : x <= y

\* Index of the first character at or after i that is not a digit (a line may
\* hold hundreds of digits, so this is stated without recursion).
DigitsEnd(str, i) ==
    LET stop == {k \in i..Len(str) : ~isdigit(str[k])}
    IN  IF stop = {} THEN Len(str) + 1 ELSE Min(stop)

\* Index of the first character at or after i that is not c.
SkipChar(str, c, i) ==
    LET stop == {k \in i..Len(str) : str[k] # c}
    IN  IF stop = {} THEN Len(str) + 1 ELSE Min(stop)

\* Index of the first character at or after i that is not white space.
RECURSIVE SkipSpace(_, _)
SkipSpace(str, i) ==
    IF i <= Len(str) /\ isspace(str[i]) THEN SkipSpace(str, i + 1) ELSE i

\* The number a run of digits denotes (Horner).
RECURSIVE DigitsValue(_, _)
DigitsValue(ds, acc) ==
    IF ds = <<>> THEN acc
    ELSE DigitsValue(Tail(ds), acc * 10 + DigitVal(Head(ds)))

\* Whether the digits ds (no leading zero) denote a number above INT_MAX.
AboveIntMax(ds) ==
    \/ Len(ds) > 10
    \/ /\ Len(ds) = 10
       /\ LET hi == DigitsValue(SubSeq(ds, 1, 9), 0)
              lo == DigitVal(ds[10])
          IN  \/ hi > INT_MAX \div 10
              \/ hi = INT_MAX \div 10 /\ lo > INT_MAX % 10

\* std::stoi(str): skips white space, takes an optional sign and the longest
\* run of digits; throws invalid_argument when there is no digit and
\* out_of_range when the number does not fit an int.
stoi(str) ==
    LET b    == SkipSpace(str, 1)
        neg  == b <= Len(str) /\ str[b] = "-"
        sgn  == b <= Len(str) /\ str[b] \in {"-", "+"}
        s    == IF sgn THEN b + 1 ELSE b
        e    == DigitsEnd(str, s)
        z    == SkipChar(str, "0", s)
        sig  == IF z < e THEN SubSeq(str, z, e - 1) ELSE <<>>
    IN  IF e = s THEN [st |-> "invalid_argument"]
        ELSE IF AboveIntMax(sig) THEN [st |-> "out_of_range"]
        ELSE [st |-> "ok",
              val |-> IF neg THEN -DigitsValue(sig, 0) ELSE DigitsValue(sig, 0)]

\* A decimal m / 10^s in lowest form: no trailing zero is kept in the fraction,
\* so that equal numbers are equal values (5, 5. and 5.0 are one double).
RECURSIVE Normal(_, _)
Normal(m, s) ==
    IF s > 0 /\ m % 10 = 0 THEN Normal(m \div 10, s - 1) ELSE [m |-> m, s |-> s]

\* std::stod(str): skips white space, takes an optional sign, digits, an
\* optional '.' and digits (exponents, hex, inf and nan never reach it: every
\* caller passes digits and '.' only); throws invalid_argument when there is
\* no digit, and out_of_range when strtod reports ERANGE: the number has more
\* integer digits than DBL_MAX, or is not zero and has no non-zero digit in
\* its first DBL_MAX_10_EXP decimal places (below DBL_MIN).  Numbers of
\* exactly DBL_MAX_10_EXP + 1 integer digits, which strtod compares with
\* DBL_MAX digit by digit, are not among the lines of the model.
stod(str) ==
    LET b    == SkipSpace(str, 1)
        neg  == b <= Len(str) /\ str[b] = "-"
        sgn  == b <= Len(str) /\ str[b] \in {"-", "+"}
        s    == IF sgn THEN b + 1 ELSE b
        e    == DigitsEnd(str, s)
        dot  == e <= Len(str) /\ str[e] = "."
        f    == IF dot THEN DigitsEnd(str, e + 1) ELSE e
        ip   == SubSeq(str, s, e - 1)
        fp   == IF dot THEN SubSeq(str, e + 1, f - 1) ELSE <<>>
        z    == SkipChar(ip, "0", 1)
        fz   == SkipChar(fp, "0", 1)
        v    == Normal(DigitsValue(SubSeq(ip, z, Len(ip)) \o fp, 0), Len(fp))
    IN  IF ip = <<>> /\ fp = <<>> THEN [st |-> "invalid_argument"]
        ELSE IF Len(ip) - (z - 1) > DBL_MAX_10_EXP + 1 THEN [st |-> "out_of_range"]
        ELSE IF z > Len(ip) /\ fz <= Len(fp) /\ fz > DBL_MAX_10_EXP
             THEN [st |-> "out_of_range"]
        ELSE [st |-> "ok",
              val |-> IF neg THEN [m |-> -v.m, s |-> v.s] ELSE v]

RECURSIVE Pow10(_)
Pow10(n) == IF n = 0 THEN 1 ELSE 10 * Pow10(n - 1)

\* Times with the operator mistyped: hourlyRate + hoursWorked.
Times_Plus(d, n) == Normal(d.m + n * Pow10(d.s), d.s)

\* double * int, as in hourlyRate * hoursWorked.
Times(d, n) == Normal(d.m * n, d.s)

-----------------------------------------------------------------------------
(* The lines an operator may type at each prompt.  Each set holds, for every *)
(* branch of the code that reads it, a line that takes the branch.           *)

\* 310 digits: above DBL_MAX.
HugeNumber == [k \in 1..(DBL_MAX_10_EXP + 2) |-> "9"]

MenuLines ==
    { <<"1">>, <<"2">>, <<"3">>, <<"4">>, <<"5">>, <<"6">>, <<"1", "2">>,
      <<" ", "4">>, <<"x">> }

\* A_E.cpp's "Enter ID: "
IDLines ==
    { <<"A", "1">>, <<" ", "A", "1", " ">>, <<"b", "2">>, <<"7">>,
      <<"A", " ", "1">>, <<"a", "-", "1">>, <<>> }

\* DeepSeek.cpp's and Test_code.cpp's "Enter ID: ", read by getValidInt
DS_IDLines ==
    { <<"7">>, <<"0", "0", "7">>, <<"1", "2">>, <<" ", "7">>, <<"A", "1">>, <<>>,
      <<"2", "1", "4", "7", "4", "8", "3", "6", "4", "7">>,
      <<"2", "1", "4", "7", "4", "8", "3", "6", "4", "8">> }

NameLines ==
    { <<"A", "n", "n", " ", "L", "e", "e">>,
      <<" ", "J", "o", "h", "n", " ", "D", "o", "e", " ">>,
      <<"J", "o", "h", "n", " ", " ", "D", "o", "e">>,
      <<"J", "o", "h", "n", "3">>,
      <<>> }

DS_NameLines ==
    { <<"A", "n", "n", " ", "L", "e", "e">>,
      <<"J", "o", "h", "n", " ", " ", "D", "o", "e">>,
      <<"J", "o", "h", "n", "3">>,
      <<>> }

DoubleLines ==
    { <<"5", "0", "0", "0">>, <<".", "5">>, <<"1", "2", "3", "4", "5", "6", "7">>,
      <<".">>,
      <<"1", "2", ".", "5", ".", "6">>, <<"-", "5">>, <<>>, HugeNumber }

DS_DoubleLines ==
    { <<"5", "0", "0", "0">>, <<".">>, <<"1", "2", ".", "5", ".", "6">>,
      <<"-", "5">>, <<>>, HugeNumber }

IntLines ==
    { <<"4", "0">>, <<" ", "4", "0">>, <<"4", ".", "5">>, <<"-", "3">>, <<>>,
      <<"2", "1", "4", "7", "4", "8", "3", "6", "4", "8">>,
      <<"9", "9", "9", "9", "9", "9", "9", "9", "9", "9", "9">> }

\* Every line of at most MaxLen characters over an alphabet with one
\* character of each class the validators tell apart.
MaxLen == 3

ValAlphabet == {"a", "5", ".", " ", "\t", "-"}

ShortLines == UNION {[1..n -> ValAlphabet] : n \in 0..MaxLen}

\* A number below DBL_MIN: '.', 308 zeros and a 1.
TinyNumber == <<".">> \o [k \in 1..DBL_MAX_10_EXP |-> "0"] \o <<"1">>

ExampleLines ==
    { <<"J", "o", "h", "n", " ", "D", "o", "e">>,
      <<"J", "o", "h", "n", " ", " ", "D", "o", "e">>,
      <<"J", "o", "h", "n", "3">>,
      <<"A", "n", "n", "\t", "L", "e", "e">>,
      <<"1", "2", "0", "0", ".", "5", "0">>,
      <<"1", "2", ".", "5", ".", "6">>,
      <<"1", "0", "0">>,
      <<"a", "b", "c">>,
      HugeNumber, TinyNumber }

ValLines == ShortLines \cup ExampleLines

-----------------------------------------------------------------------------
(* A_E.cpp: the employee classes *)

Employee(i, n, salary) == [id |-> i, name |-> n, salary |-> salary]

FullTimeEmployee(i, n, salary) ==
    [kind |-> "FullTime"] @@ Employee(i, n, salary)

PartTimeEmployee(i, n, hourlyRate, hoursWorked) ==
    [kind |-> "PartTime", hourlyRate |-> hourlyRate, hoursWorked |-> hoursWorked]
        @@ Employee(i, n, Times(hourlyRate, hoursWorked))

ContractualEmployee(i, n, paymentPerProject, projectsCompleted) ==
    [kind |-> "Contractual", paymentPerProject |-> paymentPerProject,
     projectsCompleted |-> projectsCompleted]
        @@ Employee(i, n, Times(paymentPerProject, projectsCompleted))

getId(emp) == emp.id

\* cout's precision: the default of a stream, which no program changes.
precision == 6

NumDigits[n \in Nat] == IF n < 10 THEN 1 ELSE 1 + NumDigits[n \div 10]

\* cout << int, of a number that is not negative.
PutInt[n \in Nat] ==
    IF n < 10 THEN <<DigitChars[n + 1]>>
    ELSE PutInt[n \div 10] \o <<DigitChars[(n % 10) + 1]>>

StripZeros[n \in Nat] == IF n >= 10 /\ n % 10 = 0 THEN StripZeros[n \div 10] ELSE n

Zeros(n) == [k \in 1..n |-> "0"]

\* cout << double with the flags and precision of a fresh stream (%g with
\* precision 6), of a number that is not negative: the number is rounded to 6
\* significant digits (to even on a tie), trailing zeros are dropped, and the
\* notation is scientific when the decimal exponent X of the rounded number is
\* below -4 or at least 6.  (The model's double is the decimal typed: on a tie
\* of a number with a fraction the binary double decides the direction.)
PutDouble(d) ==
    IF d.m = 0 THEN <<"0">>
    ELSE
    LET D     == NumDigits[d.m]
        p     == Pow10(IF D > precision THEN D - precision ELSE 0)
        q0    == d.m \div p
        r     == d.m % p
        q1    == IF 2 * r > p \/ (2 * r = p /\ q0 % 2 = 1) THEN q0 + 1 ELSE q0
        carry == NumDigits[q1] > NumDigits[q0]
        X     == D - 1 - d.s + (IF carry THEN 1 ELSE 0)
        digs  == PutInt[StripZeros[q1]]
        n     == Len(digs)
        E     == IF X < 0 THEN -X ELSE X
    IN  IF X < -4 \/ X >= precision
        THEN <<digs[1]>>
             \o (IF n > 1 THEN <<".">> \o SubSeq(digs, 2, n) ELSE <<>>)
             \o <<"e", IF X < 0 THEN "-" ELSE "+">>
             \o (IF E < 10 THEN <<"0">> ELSE <<>>) \o PutInt[E]
        ELSE IF X >= 0
        THEN (IF n >= X + 1 THEN SubSeq(digs, 1, X + 1)
              ELSE digs \o Zeros(X + 1 - n))
             \o (IF n > X + 1 THEN <<".">> \o SubSeq(digs, X + 2, n) ELSE <<>>)
        ELSE <<"0", ".">> \o Zeros(-X - 1) \o digs

\* Employee::display of the three classes: the items each block prints, in
\* the order printed.
display(emp) ==
    CASE emp.kind = "FullTime" ->
           <<"Employee: ", emp.name, " (ID: ", emp.id, ")",
             "Fixed Monthly Salary: $", PutDouble(emp.salary)>>
      [] emp.kind = "PartTime" ->
           <<"Employee: ", emp.name, " (ID: ", emp.id, ")",
             "Hourly Rate: $", PutDouble(emp.hourlyRate),
             "Hours Worked: ", PutInt[emp.hoursWorked],
             "Total Salary: $", PutDouble(emp.salary)>>
      [] emp.kind = "Contractual" ->
           <<"Employee: ", emp.name, " (ID: ", emp.id, ")",
             "Contract Payment Per Project: $", PutDouble(emp.paymentPerProject),
             "Projects Completed: ", PutInt[emp.projectsCompleted],
             "Total Salary: $", PutDouble(emp.salary)>>

-----------------------------------------------------------------------------
(* A_E.cpp: PayrollSystem.  Each getValid* below is ONE pass of the          *)
(* function's while loop on the line read: st = "ok" with the value returned, *)
(* or st = "retry" with the message printed before the prompt is repeated.   *)

Ok(v) == [st |-> "ok", val |-> v, msg |-> <<>>]

Retry(m) == [st |-> "retry", val |-> NoVal, msg |-> <<m>>]

\* An exception no handler catches: std::terminate.
Throw(e) == [st |-> "throw", val |-> NoVal, msg |-> <<e>>]

RECURSIVE TrimStart(_, _, _)
TrimStart(str, start, end) ==
    IF start <= end /\ isspace(str[start]) THEN TrimStart(str, start + 1, end)
    ELSE start

RECURSIVE TrimEnd(_, _, _)
TrimEnd(str, start, end) ==
    IF end >= start /\ isspace(str[end]) THEN TrimEnd(str, start, end - 1)
    ELSE end

trim(str) ==
    IF str = <<>> THEN <<>>
    ELSE LET start == TrimStart(str, 1, Len(str))
             end   == TrimEnd(str, start, Len(str))
         IN  SubSeq(str, start, end)

\* IdScan returning from the loop's first pass whatever it finds.
IdScan_FirstOnly(i, emps, k) ==
    IF k > Len(emps) THEN TRUE
    ELSE getId(emps[k]) # i

\* The scan of the vector from position k on, returning at the first match.
RECURSIVE IdScan(_, _, _)
IdScan(i, emps, k) ==
    IF k > Len(emps) THEN TRUE
    ELSE IF getId(emps[k]) = i THEN FALSE
    ELSE IdScan(i, emps, k + 1)

\* isIdUnique starting its scan at the second record.
isIdUnique_SkipFirst(i, emps) == IdScan(i, emps, 2)

isIdUnique(i, emps) == IdScan(i, emps, 1)

RECURSIVE AlnumScan(_, _)
AlnumScan(input, k) ==
    IF k > Len(input) THEN TRUE
    ELSE IF ~isalnum(input[k]) THEN FALSE
    ELSE AlnumScan(input, k + 1)

\* getValidID without the call of trim.
getValidID_NoTrim(raw, emps) ==
    LET input == raw
        valid == input # <<>> /\ AlnumScan(input, 1)
    IN  IF valid
        THEN IF isIdUnique(input, emps) THEN Ok(input)
             ELSE Retry("Duplicate ID! Try again.")
        ELSE Retry("Invalid ID! Use only letters and numbers.")

getValidID(raw, emps) ==
    LET input == trim(raw)
        valid == input # <<>> /\ AlnumScan(input, 1)
    IN  IF valid
        THEN IF isIdUnique(input, emps) THEN Ok(input)
             ELSE Retry("Duplicate ID! Try again.")
        ELSE Retry("Invalid ID! Use only letters and numbers.")

\* DoubleBreak with the test ++decimalPoints > 2: a second '.' passes.
DoubleBreak_TwoDots(input) ==
    LET dots  == {k \in 1..Len(input) : input[k] = "."}
        other == {k \in 1..Len(input) : input[k] # "." /\ ~isdigit(input[k])}
        third == {k \in dots : Cardinality({j \in dots : j < k}) >= 2}
        bad   == other \cup third
    IN  IF bad = {} THEN Len(input) + 1 ELSE Min(bad)

\* DoubleBreak letting a sign through, as a validator written for signed
\* amounts would.
DoubleBreak_Signed(input) ==
    LET dots  == {k \in 1..Len(input) : input[k] = "."}
        other == {k \in 1..Len(input) :
                    input[k] # "." /\ ~isdigit(input[k]) /\ ~(k = 1 /\ input[k] = "-")}
        bad   == other \cup (IF dots = {} THEN {} ELSE dots \ {Min(dots)})
    IN  IF bad = {} THEN Len(input) + 1 ELSE Min(bad)

\* The for loop of getValidDouble: the position at which it sets valid to
\* false and breaks, on a character that is neither '.' nor a digit or on the
\* second '.'; Len(input) + 1 when it runs to the end.
DoubleBreak(input) ==
    LET dots  == {k \in 1..Len(input) : input[k] = "."}
        other == {k \in 1..Len(input) : input[k] # "." /\ ~isdigit(input[k])}
        bad   == other \cup (IF dots = {} THEN {} ELSE dots \ {Min(dots)})
    IN  IF bad = {} THEN Len(input) + 1 ELSE Min(bad)

\* <<valid, hasDigit>> as the for loop leaves them.
DoubleScan(input) ==
    LET stop == DoubleBreak(input)
    IN  <<stop > Len(input), \E k \in 1..(stop - 1) : isdigit(input[k])>>

getValidDouble(raw) ==
    LET input == trim(raw)
        scan  == DoubleScan(input)
        valid == input # <<>> /\ scan[1]
    IN  IF valid /\ scan[2]
        THEN LET r == stod(input)
             IN  CASE r.st = "ok" -> Ok(r.val)
                   [] r.st = "invalid_argument" ->
                        Retry("Invalid input! Please enter a valid number.")
                   [] r.st = "out_of_range" ->
                        Retry("Input out of range for a double.")
        ELSE Retry("Invalid input! Use numbers with optional single decimal point.")

RECURSIVE DigitScan(_, _)
DigitScan(input, k) ==
    IF k > Len(input) THEN TRUE
    ELSE IF ~isdigit(input[k]) THEN FALSE
    ELSE DigitScan(input, k + 1)

\* getValidInt with one message for every rejected line.
getValidInt_OneMessage(raw) ==
    LET input == trim(raw)
        valid == input # <<>> /\ DigitScan(input, 1)
    IN  IF valid /\ stoi(input).st = "ok" THEN Ok(stoi(input).val)
        ELSE Retry("Invalid input! Please enter whole numbers only.")

\* getValidInt accepting no line.
getValidInt_NeverOk(raw) ==
    Retry("Invalid input! Please enter whole numbers only.")

getValidInt(raw) ==
    LET input == trim(raw)
        valid == input # <<>> /\ DigitScan(input, 1)
    IN  IF valid
        THEN LET r == stoi(input)
             IN  CASE r.st = "ok" -> Ok(r.val)
                   [] r.st = "invalid_argument" ->
                        Retry("Invalid input! Please enter a valid integer.")
                   [] r.st = "out_of_range" ->
                        Retry("Input out of range for an integer.")
        ELSE Retry("Invalid input! Please enter whole numbers only.")

\* The for loop of getValidName from position k on: the value of valid at the
\* break or at the end of the line.
RECURSIVE NameScan(_, _, _)
NameScan(input, k, prevSpace) ==
    IF k > Len(input) THEN TRUE
    ELSE IF isspace(input[k])
         THEN IF prevSpace THEN FALSE ELSE NameScan(input, k + 1, TRUE)
    ELSE IF ~isalpha(input[k]) THEN FALSE
    ELSE NameScan(input, k + 1, FALSE)

\* getValidName returning whatever line it read.
getValidName_AcceptAll(raw) == Ok(trim(raw))

getValidName(raw) ==
    LET input == trim(raw)
        valid == input # <<>> /\ NameScan(input, 1, FALSE)
    IN  IF valid THEN Ok(input)
        ELSE Retry("Invalid name! Use letters and single spaces between names.")

\* What one pass of getValidDouble's loop does on each line of the model (the
\* lines are long; this is computed once).
DoubleOutcome == [l \in DoubleLines |-> getValidDouble(l)]

\* The same on every short line.
ValDoubleOutcome == [l \in ValLines |-> getValidDouble(l)]

\* push_back inserting at the front of the vector.
push_front(emps, e) == <<e>> \o emps

\* employees.push_back(e)
push_back(emps, e) == Append(emps, e)

\* The record addEmployee's switch constructs once every field is read.
NewEmployee(t, i, n, d, c) ==
    CASE t = 1 -> FullTimeEmployee(i, n, d)
      [] t = 2 -> PartTimeEmployee(i, n, d, c)
      [] t = 3 -> ContractualEmployee(i, n, d, c)

RECURSIVE DisplayAll(_, _)
DisplayAll(emps, k) ==
    IF k > Len(emps) THEN <<>>
    ELSE <<display(emps[k])>> \o DisplayAll(emps, k + 1)

\* displayPayrollReport without its test of employees.empty().
displayPayrollReport_NoEmptyTest(emps) ==
    <<"Employee Payroll Report ---">> \o DisplayAll(emps, 1)

displayPayrollReport(emps) ==
    IF emps = <<>> THEN <<"No employees in system!">>
    ELSE <<"Employee Payroll Report ---">> \o DisplayAll(emps, 1)

-----------------------------------------------------------------------------
(* A_E.cpp: the steps of the process, one per getline *)

Init ==
    /\ prog \in {"A_E", "DeepSeek", "Test_code"}
    /\ pc = "menu"
    /\ type = 0
    /\ id = NoVal
    /\ name = NoVal
    /\ rate = NoVal
    /\ employees = <<>>
    /\ line = <<>>
    /\ out = <<>>

\* addEmployee returns into main's loop: its locals are gone.
Return(emps, printed) ==
    /\ pc' = "menu"
    /\ type' = 0
    /\ id' = NoVal
    /\ name' = NoVal
    /\ rate' = NoVal
    /\ employees' = emps
    /\ out' = printed

\* main's loop with the selection trimmed or not before the test, and with
\* the given message on a digit that is no case of the switch.
MenuStep_Variant(trimmed, other) ==
    /\ prog = "A_E"
    /\ pc = "menu"
    /\ \E l \in MenuLines :
         LET choice == IF trimmed THEN trim(l) ELSE l IN
         /\ line' = l
         /\ IF Len(choice) # 1 \/ ~isdigit(choice[1])
            THEN /\ out' = <<"Invalid menu choice!">>
                 /\ UNCHANGED <<prog, pc, type, id, name, rate, employees>>
            ELSE CASE choice[1] \in {"1", "2", "3"} ->
                        /\ Len(employees) < MaxEmployees
                        /\ pc' = "id"
                        /\ type' = DigitVal(choice[1])
                        /\ out' = <<>>
                        /\ UNCHANGED <<prog, id, name, rate, employees>>
                   [] choice[1] = "4" ->
                        /\ out' = displayPayrollReport(employees)
                        /\ UNCHANGED <<prog, pc, type, id, name, rate, employees>>
                   [] choice[1] = "5" ->
                        /\ out' = <<"Exiting system...">>
                        /\ pc' = "exit"
                        /\ UNCHANGED <<prog, type, id, name, rate, employees>>
                   [] OTHER ->
                        /\ out' = <<other>>
                        /\ UNCHANGED <<prog, pc, type, id, name, rate, employees>>

\* main with one message for every selection it does not serve.
MenuStep_OneMessage == MenuStep_Variant(TRUE, "Invalid menu choice!")

\* main testing the selection as typed.
MenuStep_NoTrim == MenuStep_Variant(FALSE, "Invalid menu option!")

\* The loop of main (lines 273-303) from the getline on: the selection is read,
\* trimmed and dispatched.
MenuStep ==
    /\ prog = "A_E"
    /\ pc = "menu"
    /\ \E l \in MenuLines :
         LET choice == trim(l) IN
         /\ line' = l
         /\ IF Len(choice) # 1 \/ ~isdigit(choice[1])
            THEN /\ out' = <<"Invalid menu choice!">>
                 /\ UNCHANGED <<prog, pc, type, id, name, rate, employees>>
            ELSE CASE choice[1] \in {"1", "2", "3"} ->
                        /\ Len(employees) < MaxEmployees
                        /\ pc' = "id"
                        /\ type' = DigitVal(choice[1])
                        /\ out' = <<>>
                        /\ UNCHANGED <<prog, id, name, rate, employees>>
                   [] choice[1] = "4" ->
                        /\ out' = displayPayrollReport(employees)
                        /\ UNCHANGED <<prog, pc, type, id, name, rate, employees>>
                   [] choice[1] = "5" ->
                        /\ out' = <<"Exiting system...">>
                        /\ pc' = "exit"
                        /\ UNCHANGED <<prog, type, id, name, rate, employees>>
                   [] OTHER ->
                        /\ out' = <<"Invalid menu option!">>
                        /\ UNCHANGED <<prog, pc, type, id, name, rate, employees>>

\* addEmployee at getValidID's getline.
IdStep ==
    /\ prog = "A_E"
    /\ pc = "id"
    /\ \E l \in IDLines :
         LET r == getValidID(l, employees) IN
         /\ line' = l
         /\ out' = r.msg
         /\ IF r.st = "ok"
            THEN /\ id' = r.val
                 /\ pc' = "name"
            ELSE UNCHANGED <<id, pc>>
         /\ UNCHANGED <<prog, type, name, rate, employees>>

\* addEmployee at getValidName's getline, the line typed being one of Lines.
NameStepOn(Lines) ==
    /\ prog = "A_E"
    /\ pc = "name"
    /\ \E l \in Lines :
         LET r == getValidName(l) IN
         /\ line' = l
         /\ out' = r.msg
         /\ IF r.st = "ok"
            THEN /\ name' = r.val
                 /\ pc' = "double"
            ELSE UNCHANGED <<name, pc>>
         /\ UNCHANGED <<prog, type, id, rate, employees>>

\* addEmployee at getValidDouble's getline: the monthly salary of case 1, after
\* which the record is pushed; the rate of cases 2 and 3.  Outcome is what a
\* pass of getValidDouble does on each line that may be typed.
DoubleStepOn(Outcome) ==
    /\ prog = "A_E"
    /\ pc = "double"
    /\ \E l \in DOMAIN Outcome :
         LET r == Outcome[l] IN
         /\ line' = l
         /\ prog' = prog
         /\ IF r.st = "ok"
            THEN IF type = 1
                 THEN Return(push_back(employees, NewEmployee(type, id, name, r.val, 0)),
                             <<"Employee added!">>)
                 ELSE /\ rate' = r.val
                      /\ pc' = "int"
                      /\ out' = r.msg
                      /\ UNCHANGED <<type, id, name, employees>>
            ELSE /\ out' = r.msg
                 /\ UNCHANGED <<pc, type, id, name, rate, employees>>

NameStep == NameStepOn(NameLines)

DoubleStep == DoubleStepOn(DoubleOutcome)

\* What one pass of getValidInt's loop does on each line of the model.
IntOutcome == [l \in IntLines |-> getValidInt(l)]

\* addEmployee at getValidInt's getline (cases 2 and 3), after which the record
\* is pushed.
IntStep ==
    /\ prog = "A_E"
    /\ pc = "int"
    /\ \E l \in IntLines :
         LET r == IntOutcome[l] IN
         /\ line' = l
         /\ prog' = prog
         /\ IF r.st = "ok"
            THEN Return(push_back(employees, NewEmployee(type, id, name, rate, r.val)),
                        <<"Employee added!">>)
            ELSE /\ out' = r.msg
                 /\ UNCHANGED <<pc, type, id, name, rate, employees>>

-----------------------------------------------------------------------------
(* DeepSeek.cpp: the same program with an int id, no trim, and std::stoi and *)
(* std::stod called outside any try block.                                   *)

RECURSIVE DS_IdScan(_, _, _)
DS_IdScan(i, emps, k) ==
    IF k > Len(emps) THEN TRUE
    ELSE IF getId(emps[k]) = i THEN FALSE
    ELSE DS_IdScan(i, emps, k + 1)

DS_isIdUnique(i, emps) == DS_IdScan(i, emps, 1)

DS_getValidInt(input) ==
    LET valid == input # <<>> /\ DigitScan(input, 1)
    IN  IF valid
        THEN LET r == stoi(input)
             IN  IF r.st = "ok" THEN Ok(r.val) ELSE Throw(r.st)
        ELSE Retry("Invalid input! Please enter whole numbers only.")

\* The for loop of getValidDouble: where it breaks (Len(input) + 1: nowhere).
DS_DoubleBreak(input) ==
    LET dots  == {k \in 1..Len(input) : input[k] = "."}
        other == {k \in 1..Len(input) : input[k] # "." /\ ~isdigit(input[k])}
        bad   == other \cup (IF dots = {} THEN {} ELSE dots \ {Min(dots)})
    IN  IF bad = {} THEN Len(input) + 1 ELSE Min(bad)

DS_getValidDouble(input) ==
    LET valid == input # <<>> /\ DS_DoubleBreak(input) > Len(input)
    IN  IF valid
        THEN LET r == stod(input)
             IN  IF r.st = "ok" THEN Ok(r.val) ELSE Throw(r.st)
        ELSE Retry("Invalid input! Use numbers with optional single decimal point.")

RECURSIVE DS_NameScan(_, _)
DS_NameScan(n, k) ==
    IF k > Len(n) THEN TRUE
    ELSE IF ~isalpha(n[k]) /\ n[k] # " " THEN FALSE
    ELSE DS_NameScan(n, k + 1)

DS_getValidName(n) ==
    LET valid == n # <<>> /\ DS_NameScan(n, 1)
    IN  IF valid THEN Ok(n)
        ELSE Retry("Invalid name! Use letters and spaces only.")

(* Test_code.cpp repeats DeepSeek.cpp's code line for line (only its comments *)
(* differ).                                                                   *)

TC_isIdUnique(i, emps) == DS_isIdUnique(i, emps)

TC_getValidInt(input) == DS_getValidInt(input)

TC_getValidDouble(input) == DS_getValidDouble(input)

TC_getValidName(n) == DS_getValidName(n)

DS_DoubleOutcome == [l \in DS_DoubleLines |-> DS_getValidDouble(l)]

TC_DoubleOutcome == [l \in DS_DoubleLines |-> TC_getValidDouble(l)]

\* Employee::display of DeepSeek.cpp: the id is an int, which cout formats.
DS_display(emp) == display([emp EXCEPT !.id = PutInt[emp.id]])

RECURSIVE DS_DisplayAll(_, _)
DS_DisplayAll(emps, k) ==
    IF k > Len(emps) THEN <<>>
    ELSE <<DS_display(emps[k])>> \o DS_DisplayAll(emps, k + 1)

DS_displayPayrollReport(emps) ==
    IF emps = <<>> THEN <<"No employees in system!">>
    ELSE <<"Employee Payroll Report ---">> \o DS_DisplayAll(emps, 1)

\* An uncaught exception: std::terminate ends the process.
Terminate(r) ==
    /\ pc' = "abort"
    /\ out' = r.msg
    /\ UNCHANGED <<type, id, name, rate, employees>>

\* The loop of main from the getline on.
DS_MenuStep ==
    /\ prog \in {"DeepSeek", "Test_code"}
    /\ pc = "menu"
    /\ \E choice \in MenuLines :
         /\ line' = choice
         /\ IF Len(choice) # 1 \/ ~isdigit(choice[1])
            THEN /\ out' = <<"Invalid menu choice!">>
                 /\ UNCHANGED <<prog, pc, type, id, name, rate, employees>>
            ELSE CASE choice[1] \in {"1", "2", "3"} ->
                        /\ Len(employees) < MaxEmployees
                        /\ pc' = "id"
                        /\ type' = DigitVal(choice[1])
                        /\ out' = <<>>
                        /\ UNCHANGED <<prog, id, name, rate, employees>>
                   [] choice[1] = "4" ->
                        /\ out' = DS_displayPayrollReport(employees)
                        /\ UNCHANGED <<prog, pc, type, id, name, rate, employees>>
                   [] choice[1] = "5" ->
                        /\ out' = <<"Exiting system...">>
                        /\ pc' = "exit"
                        /\ UNCHANGED <<prog, type, id, name, rate, employees>>
                   [] OTHER ->
                        /\ out' = <<"Invalid menu option!">>
                        /\ UNCHANGED <<prog, pc, type, id, name, rate, employees>>

\* addEmployee at the getline of getValidInt("Enter ID: "), and the
\* isIdUnique test of the while loop around it.
DS_IdStep ==
    /\ prog \in {"DeepSeek", "Test_code"}
    /\ pc = "id"
    /\ \E l \in DS_IDLines :
         LET r      == IF prog = "DeepSeek" THEN DS_getValidInt(l)
                       ELSE TC_getValidInt(l)
             unique == IF prog = "DeepSeek" THEN DS_isIdUnique(r.val, employees)
                       ELSE TC_isIdUnique(r.val, employees)
         IN
         /\ line' = l
         /\ prog' = prog
         /\ CASE r.st = "throw" -> Terminate(r)
              [] r.st = "retry" ->
                   /\ out' = r.msg
                   /\ UNCHANGED <<pc, type, id, name, rate, employees>>
              [] r.st = "ok" /\ ~unique ->
                   /\ out' = <<"Duplicate ID! Try again.">>
                   /\ UNCHANGED <<pc, type, id, name, rate, employees>>
              [] r.st = "ok" /\ unique ->
                   /\ id' = r.val
                   /\ pc' = "name"
                   /\ out' = <<>>
                   /\ UNCHANGED <<type, name, rate, employees>>

\* addEmployee at the getline of getValidName.
DS_NameStep ==
    /\ prog \in {"DeepSeek", "Test_code"}
    /\ pc = "name"
    /\ \E l \in DS_NameLines :
         LET r == IF prog = "DeepSeek" THEN DS_getValidName(l)
                  ELSE TC_getValidName(l)
         IN
         /\ line' = l
         /\ out' = r.msg
         /\ IF r.st = "ok"
            THEN /\ name' = r.val
                 /\ pc' = "double"
            ELSE UNCHANGED <<name, pc>>
         /\ UNCHANGED <<prog, type, id, rate, employees>>

\* addEmployee at the getline of getValidDouble.
DS_DoubleStep ==
    /\ prog \in {"DeepSeek", "Test_code"}
    /\ pc = "double"
    /\ \E l \in DS_DoubleLines :
         LET r == IF prog = "DeepSeek" THEN DS_DoubleOutcome[l]
                  ELSE TC_DoubleOutcome[l]
         IN
         /\ line' = l
         /\ prog' = prog
         /\ CASE r.st = "throw" -> Terminate(r)
              [] r.st = "retry" ->
                   /\ out' = r.msg
                   /\ UNCHANGED <<pc, type, id, name, rate, employees>>
              [] r.st = "ok" /\ type = 1 ->
                   Return(push_back(employees, NewEmployee(type, id, name, r.val, 0)),
                          <<"Employee added!">>)
              [] r.st = "ok" /\ type # 1 ->
                   /\ rate' = r.val
                   /\ pc' = "int"
                   /\ out' = <<>>
                   /\ UNCHANGED <<type, id, name, employees>>

\* addEmployee at the getline of getValidInt for the hours or the projects.
DS_IntStep ==
    /\ prog \in {"DeepSeek", "Test_code"}
    /\ pc = "int"
    /\ \E l \in IntLines :
         LET r == IF prog = "DeepSeek" THEN DS_getValidInt(l)
                  ELSE TC_getValidInt(l)
         IN
         /\ line' = l
         /\ prog' = prog
         /\ CASE r.st = "throw" -> Terminate(r)
              [] r.st = "retry" ->
                   /\ out' = r.msg
                   /\ UNCHANGED <<pc, type, id, name, rate, employees>>
              [] r.st = "ok" ->
                   Return(push_back(employees, NewEmployee(type, id, name, rate, r.val)),
                          <<"Employee added!">>)

Next ==
    \/ MenuStep
    \/ IdStep
    \/ NameStep
    \/ DoubleStep
    \/ IntStep
    \/ DS_MenuStep
    \/ DS_IdStep
    \/ DS_NameStep
    \/ DS_DoubleStep
    \/ DS_IntStep

Spec == Init /\ [][Next]_vars

-----------------------------------------------------------------------------
(* A_E.cpp with an operator who, asked for a field, does in the end type a   *)
(* line the field's validator accepts: at each prompt the step that accepts  *)
(* stays possible for as long as the prompt is repeated, and is taken.       *)

Init_A_E == Init /\ prog = "A_E"

Next_A_E ==
    \/ MenuStep
    \/ IdStep
    \/ NameStep
    \/ DoubleStep
    \/ IntStep

\* A step of a field that changes pc is one that accepts the line.
ConformingLines ==
    /\ WF_pc(IdStep)
    /\ WF_pc(NameStep)
    /\ WF_pc(DoubleStep)
    /\ WF_pc(IntStep)

FairSpec == Init_A_E /\ [][Next_A_E]_vars /\ ConformingLines

-----------------------------------------------------------------------------
(* The validators of A_E.cpp on every short line: one add of a full-time     *)
(* employee, taken from the point where selection 1 and the id A1 have been  *)
(* read, with any line of ValLines typed at the name and salary prompts.     *)
(* Each prompt is answered once (out = <<>>: nothing was rejected yet): what  *)
(* a pass of a validator does with a line does not depend on the lines it    *)
(* rejected before.                                                          *)

InitVal ==
    /\ prog = "A_E"
    /\ pc = "name"
    /\ type = 1
    /\ id = <<"A", "1">>
    /\ name = NoVal
    /\ rate = NoVal
    /\ employees = <<>>
    /\ line = <<"A", "1">>
    /\ out = <<>>

ValNameStep == out = <<>> /\ NameStepOn(ValLines)

ValDoubleStep == out = <<>> /\ DoubleStepOn(ValDoubleOutcome)

NextVal ==
    \/ ValNameStep
    \/ ValDoubleStep

SpecVal == InitVal /\ [][NextVal]_vars

-----------------------------------------------------------------------------
(* What the properties below are stated with: the grammars and the numbers   *)
(* of the specification, written without the scans of the code.              *)

\* The number a string of digits denotes.
RECURSIVE NumberOf(_)
NumberOf(t) ==
    IF t = <<>> THEN 0
    ELSE DigitVal(t[1]) * Pow10(Len(t) - 1) + NumberOf(Tail(t))

\* The decimal a string of digits with at most one '.' denotes.
DecimalOf(t) ==
    LET dots == {k \in 1..Len(t) : t[k] = "."}
    IN  [m |-> NumberOf(SelectSeq(t, LAMBDA c : c # ".")),
         s |-> IF dots = {} THEN 0 ELSE Len(t) - Min(dots)]

\* a and b are the same number.
SameNumber(a, b) == a.m * Pow10(b.s) = b.m * Pow10(a.s)

KindOf(t) ==
    CASE t = 1 -> "FullTime" [] t = 2 -> "PartTime" [] t = 3 -> "Contractual"

\* The rate and count fields of a record that has them.
RateOf(e) == IF e.kind = "PartTime" THEN e.hourlyRate ELSE e.paymentPerProject

CountOf(e) == IF e.kind = "PartTime" THEN e.hoursWorked ELSE e.projectsCompleted

Last(emps) == emps[Len(emps)]

Added == Len(employees') = Len(employees) + 1

\* Letters and the space character, no two spaces in a row.
NameGrammar(t) ==
    /\ t # <<>>
    /\ \A k \in 1..Len(t) : isalpha(t[k]) \/ t[k] = " "
    /\ \A k \in 1..(Len(t) - 1) : ~(t[k] = " " /\ t[k + 1] = " ")

\* digit+ ('.' digit+)?
StrictMoney(t) ==
    \E n \in 1..Len(t) :
        /\ \A k \in 1..n : isdigit(t[k])
        /\ \/ n = Len(t)
           \/ /\ n + 2 <= Len(t)
              /\ t[n + 1] = "."
              /\ \A k \in (n + 2)..Len(t) : isdigit(t[k])

\* Digits and at most one '.', with a digit somewhere.
LooseMoney(t) ==
    /\ \A k \in 1..Len(t) : isdigit(t[k]) \/ t[k] = "."
    /\ Cardinality({k \in 1..Len(t) : t[k] = "."}) <= 1
    /\ \E k \in 1..Len(t) : isdigit(t[k])

\* For t in LooseMoney: zero, or a number whose leading non-zero digit stands
\* at most DBL_MAX_10_EXP + 1 places before the point or at most DBL_MAX_10_EXP
\* places after it.
InDoubleRange(t) ==
    LET dots  == {k \in 1..Len(t) : t[k] = "."}
        point == IF dots = {} THEN Len(t) + 1 ELSE Min(dots)
        nz    == {k \in 1..Len(t) : t[k] \notin {"0", "."}}
    IN  \/ nz = {}
        \/ /\ Min(nz) < point => point - Min(nz) <= DBL_MAX_10_EXP + 1
           /\ Min(nz) > point => Min(nz) - point <= DBL_MAX_10_EXP

DigitString(t) == t # <<>> /\ \A k \in 1..Len(t) : isdigit(t[k])

IntMaxDigits == <<"2", "1", "4", "7", "4", "8", "3", "6", "4", "7">>

\* For a string of digits: its number is at most INT_MAX.
FitsInt(t) ==
    LET nz  == {k \in 1..Len(t) : t[k] # "0"}
        sig == IF nz = {} THEN <<>> ELSE SubSeq(t, Min(nz), Len(t))
    IN  \/ Len(sig) < Len(IntMaxDigits)
        \/ /\ Len(sig) = Len(IntMaxDigits)
           /\ ~\E k \in 1..Len(sig) :
                 /\ DigitVal(sig[k]) > DigitVal(IntMaxDigits[k])
                 /\ \A j \in 1..(k - 1) : sig[j] = IntMaxDigits[j]

WellFormedId(t) == t # <<>> /\ \A k \in 1..Len(t) : isalnum(t[k])

-----------------------------------------------------------------------------
(* The properties *)

\* C1: in each of the three programs no two records of the registry have the
\* same id, and the id accepted for the add in progress is not in the registry
\* (so it is absent when the record is appended).
C1_UniqueIds ==
    /\ \A j, k \in 1..Len(employees) :
          j # k => employees[j].id # employees[k].id
    /\ pc \in {"name", "double", "int"} =>
          \A k \in 1..Len(employees) : employees[k].id # id

\* Two adds have completed.
C1_Witness == Len(employees) = 2 /\ out = <<"Employee added!">>

IdCandidates == {trim(l) : l \in IDLines}

DS_IdCandidates == {0, 7, 12, INT_MAX}

\* C2: isIdUnique(x) is true exactly when no record of the registry has the id
\* x (it is an operator of the registry alone: it changes nothing).
C2_IsIdUniqueIff ==
    /\ prog = "A_E" =>
          \A x \in IdCandidates :
             isIdUnique(x, employees)
                <=> (\A k \in 1..Len(employees) : employees[k].id # x)
    /\ prog = "DeepSeek" =>
          \A x \in DS_IdCandidates :
             DS_isIdUnique(x, employees)
                <=> (\A k \in 1..Len(employees) : employees[k].id # x)

\* Two records with distinct ids are in: isIdUnique is false of both ids and
\* true of a third.
C2_Witness ==
    /\ prog = "A_E"
    /\ Len(employees) = 2
    /\ employees[1].id # employees[2].id
    /\ ~isIdUnique(employees[1].id, employees)
    /\ ~isIdUnique(employees[2].id, employees)
    /\ \E x \in IdCandidates : isIdUnique(x, employees)

\* C3: in A_E.cpp the registry changes only when an add completes, by one
\* record appended at its end; every other step leaves it as it is.
C3_AppendOnly ==
    [][prog = "A_E" =>
         /\ employees' # employees =>
               /\ Added
               /\ SubSeq(employees', 1, Len(employees)) = employees
               /\ pc \in {"double", "int"} /\ pc' = "menu"
               /\ out' = <<"Employee added!">>
         /\ out' # <<"Employee added!">> => employees' = employees
         /\ (pc \in {"double", "int"} /\ pc' = "menu") => Added]_vars

\* A second add has completed in A_E.cpp.
C3_Witness ==
    prog = "A_E" /\ Len(employees) = 2 /\ out = <<"Employee added!">>

\* C4: the add started by selection n has type n; the record it appends has the
\* variant of that type, the accepted id and name, and the salary of its
\* variant's formula on the numbers typed: the monthly salary, or rate x count.
C4_SalaryFormula ==
    [][/\ (pc = "menu" /\ pc' = "id") =>
             \E n \in 1..3 : trim(line') = <<DigitChars[n + 1]>> /\ type' = n
       /\ (pc = "double" /\ pc' = "int") =>
             SameNumber(rate', DecimalOf(trim(line')))
       /\ Added =>
             LET e == Last(employees')
                 t == trim(line')
             IN  /\ e.kind = KindOf(type)
                 /\ e.id = id
                 /\ e.name = name
                 /\ type = 1 => SameNumber(e.salary, DecimalOf(t))
                 /\ type \in {2, 3} =>
                       /\ RateOf(e) = rate
                       /\ CountOf(e) = NumberOf(t)
                       /\ SameNumber(e.salary,
                                     [m |-> rate.m * NumberOf(t), s |-> rate.s])]_vars

\* A part-time record of rate .5 and 40 hours, salary 20.
C4_Witness ==
    \E k \in 1..Len(employees) :
        /\ employees[k].kind = "PartTime"
        /\ employees[k].hourlyRate = [m |-> 5, s |-> 1]
        /\ employees[k].hoursWorked = 40
        /\ employees[k].salary = [m |-> 20, s |-> 0]

\* C5: no program ends abnormally, and a program ends only on selection 5.
C5_NoAbnormalEnd ==
    /\ pc # "abort"
    /\ pc = "exit" => trim(line) = <<"5">>

\* C6: getValidName accepts a trimmed line exactly when it is in NameGrammar,
\* and the accepted name and every stored name are in NameGrammar.
C6_NameGrammar ==
    [][(prog = "A_E" /\ pc = "name") =>
         /\ (pc' = "double") <=> NameGrammar(trim(line'))
         /\ pc' = "double" => NameGrammar(name')]_vars

\* C7 as stated: getValidDouble accepts a trimmed line exactly when it is in
\* digit+ ('.' digit+)? (and within the range of a double).
C7_StrictGrammar ==
    [][(prog = "A_E" /\ pc = "double") =>
         ((pc' # "double") <=>
             (StrictMoney(trim(line')) /\ InDoubleRange(trim(line'))))]_vars

\* C7 amended: getValidDouble accepts a trimmed line exactly when it holds only
\* digits and at most one '.', holds a digit, and is within the range of a
\* double; every other line is rejected and the prompt repeated.
C7_LooseGrammar ==
    [][(prog = "A_E" /\ pc = "double") =>
         ((pc' # "double") <=>
             (LooseMoney(trim(line')) /\ InDoubleRange(trim(line'))))]_vars

\* "5." was accepted as the monthly salary 5.
C7_Witness ==
    /\ prog = "A_E"
    /\ pc = "menu"
    /\ trim(line) = <<"5", ".">>
    /\ Len(employees) = 1
    /\ employees[1].salary = [m |-> 5, s |-> 0]

\* C8: getValidInt of A_E.cpp returns exactly on a trimmed line that is a
\* non-empty string of digits denoting at most INT_MAX, and returns that
\* number; a string of digits above INT_MAX gets the out-of-range message, any
\* other line the whole-numbers message, and both leave the program at the
\* same prompt with the registry and the fields read so far as they were.
C8_CountValidator ==
    [][(prog = "A_E" /\ pc = "int") =>
         LET t == trim(line') IN
         /\ (pc' = "menu") <=> (DigitString(t) /\ FitsInt(t))
         /\ pc' = "menu" => Added /\ CountOf(Last(employees')) = NumberOf(t)
         /\ (DigitString(t) /\ ~FitsInt(t)) =>
               /\ out' = <<"Input out of range for an integer.">>
               /\ pc' = "int"
               /\ UNCHANGED <<employees, type, id, name, rate>>
         /\ ~DigitString(t) =>
               /\ out' = <<"Invalid input! Please enter whole numbers only.">>
               /\ pc' = "int"
               /\ UNCHANGED <<employees, type, id, name, rate>>]_vars

\* INT_MAX + 1 was typed at the hours or projects prompt and rejected.
C8_Witness ==
    /\ prog = "A_E"
    /\ pc = "int"
    /\ trim(line) = <<"2", "1", "4", "7", "4", "8", "3", "6", "4", "8">>
    /\ out = <<"Input out of range for an integer.">>

\* C9: getValidID of A_E.cpp returns exactly on a trimmed line that is a
\* non-empty string of letters and digits no record has as its id, and returns
\* that string; a well-formed id some record has gets the duplicate message,
\* and the program stays at the id prompt (the name is not asked for) with the
\* registry unchanged.
C9_IdValidator ==
    [][(prog = "A_E" /\ pc = "id") =>
         LET t   == trim(line')
             dup == \E k \in 1..Len(employees) : employees[k].id = t
         IN
         /\ (pc' = "name") <=> (WellFormedId(t) /\ ~dup)
         /\ pc' = "name" => id' = t
         /\ pc' \in {"id", "name"}
         /\ (WellFormedId(t) /\ dup) =>
               /\ out' = <<"Duplicate ID! Try again.">>
               /\ pc' = "id"
         /\ ~WellFormedId(t) =>
               /\ out' = <<"Invalid ID! Use only letters and numbers.">>
               /\ pc' = "id"
         /\ UNCHANGED <<employees, type, name, rate>>]_vars

\* The id of the record in the registry was typed again, with spaces around it.
C9_Witness ==
    /\ prog = "A_E"
    /\ pc = "id"
    /\ Len(employees) = 1
    /\ line = <<" ", "A", "1", " ">>
    /\ employees[1].id = <<"A", "1">>
    /\ out = <<"Duplicate ID! Try again.">>

\* C10: every record's salary is at least 0, and so are its rate and count.
C10_NonNegative ==
    \A k \in 1..Len(employees) :
        LET e == employees[k] IN
        /\ e.salary.m >= 0
        /\ e.kind # "FullTime" => RateOf(e).m >= 0 /\ CountOf(e) >= 0

\* A part-time and a contractual record are in the registry.
C10_Witness ==
    /\ \E k \in 1..Len(employees) : employees[k].kind = "PartTime"
    /\ \E k \in 1..Len(employees) : employees[k].kind = "Contractual"

\* The selections main serves.
Served == {<<DigitChars[n + 1]>> : n \in 1..5}

\* One character, a digit.
OneDigit(t) == Len(t) = 1 /\ isdigit(t[1])

\* C11 as stated: at the menu of A_E.cpp every selection other than a single
\* digit 1 to 5 prints "Invalid menu choice!", and the menu is shown again with
\* no field asked for and the registry unchanged.
C11_InvalidChoice ==
    [][(prog = "A_E" /\ pc = "menu" /\ trim(line') \notin Served) =>
         /\ out' = <<"Invalid menu choice!">>
         /\ pc' = "menu"
         /\ UNCHANGED <<employees, type, id, name, rate>>]_vars

\* C11 amended: a trimmed selection that is not one digit prints "Invalid menu
\* choice!", one that is a digit other than 1 to 5 prints "Invalid menu
\* option!"; in both cases the menu is shown again with no field asked for and
\* the registry unchanged.
C11_InvalidSelection ==
    [][(prog = "A_E" /\ pc = "menu" /\ trim(line') \notin Served) =>
         /\ ~OneDigit(trim(line')) => out' = <<"Invalid menu choice!">>
         /\ OneDigit(trim(line')) => out' = <<"Invalid menu option!">>
         /\ pc' = "menu"
         /\ UNCHANGED <<employees, type, id, name, rate>>]_vars

\* With a record in the registry, "6" was typed at the menu of A_E.cpp and
\* answered by "Invalid menu option!".
C11_Witness ==
    /\ prog = "A_E"
    /\ pc = "menu"
    /\ line = <<"6">>
    /\ out = <<"Invalid menu option!">>
    /\ Len(employees) = 1

\* The printed report: the empty message, or the header and then blocks.
IsReport(printed, emps) ==
    IF emps = <<>> THEN printed = <<"No employees in system!">>
    ELSE Len(printed) = 1 + Len(emps) /\ printed[1] = "Employee Payroll Report ---"

\* C12: the dispatch of A_E.cpp's menu is total, on the trimmed selection:
\* 1, 2, 3 start an add of the FullTime, PartTime, Contractual variant; 4 runs
\* the report; 5 prints the exit message and ends the process normally, after
\* which nothing is read; another digit prints "Invalid menu option!", anything
\* else "Invalid menu choice!"; except after 5 the program goes on to the menu
\* (or first to the id prompt of the add), the registry as it was.
C12_Dispatch ==
    /\ [](prog = "A_E" /\ pc = "menu" =>
             \A l \in MenuLines :
                (trim(l) \in {<<"1">>, <<"2">>, <<"3">>}
                    => Len(employees) < MaxEmployees)
                => ENABLED (line' = l /\ MenuStep))
    /\ [][prog = "A_E" =>
            /\ pc # "exit"
            /\ pc = "menu" =>
                 LET t == trim(line') IN
                 /\ \A n \in 1..3 :
                       t = <<DigitChars[n + 1]>> =>
                          /\ pc' = "id"
                          /\ type' = n
                          /\ KindOf(type') = <<"FullTime", "PartTime", "Contractual">>[n]
                          /\ out' = <<>>
                 /\ t = <<"4">> => pc' = "menu" /\ IsReport(out', employees)
                 /\ t = <<"5">> => pc' = "exit" /\ out' = <<"Exiting system...">>
                 /\ (OneDigit(t) /\ t \notin Served) =>
                       pc' = "menu" /\ out' = <<"Invalid menu option!">>
                 /\ ~OneDigit(t) =>
                       pc' = "menu" /\ out' = <<"Invalid menu choice!">>
                 /\ pc' = "exit" => t = <<"5">>
                 /\ pc' = "id" => t \in {<<"1">>, <<"2">>, <<"3">>}
                 /\ employees' = employees]_vars

\* A_E.cpp has ended on selection 5, two records in its registry.
C12_Witness ==
    /\ prog = "A_E"
    /\ pc = "exit"
    /\ line = <<"5">>
    /\ out = <<"Exiting system...">>
    /\ Len(employees) = 2

\* C13: selection 4 of A_E.cpp with an empty registry prints exactly "No
\* employees in system!" (no header, no block) and changes nothing; the
\* registry is empty until an add completes, and the message is printed of an
\* empty registry only.
C13_EmptyReport ==
    [][prog = "A_E" =>
         /\ (pc = "menu" /\ trim(line') = <<"4">> /\ employees = <<>>) =>
               /\ out' = <<"No employees in system!">>
               /\ pc' = "menu"
               /\ employees' = <<>>
         /\ (employees = <<>> /\ employees' # <<>>) =>
               out' = <<"Employee added!">>
         /\ out' = <<"No employees in system!">> =>
               /\ employees = <<>>
               /\ trim(line') = <<"4">>]_vars

\* The report of A_E.cpp was asked for before any add, and the empty message
\* printed.
C13_Witness ==
    /\ prog = "A_E"
    /\ pc = "menu"
    /\ trim(line) = <<"4">>
    /\ employees = <<>>
    /\ out = <<"No employees in system!">>

\* The number a printed amount denotes: digits with at most one '.', then
\* possibly e, a sign and the digits of a decimal exponent.
ShownNumber(t) ==
    LET es   == {k \in 1..Len(t) : t[k] = "e"}
        mant == DecimalOf(IF es = {} THEN t ELSE SubSeq(t, 1, Min(es) - 1))
        X    == IF es = {} THEN 0 ELSE NumberOf(SubSeq(t, Min(es) + 2, Len(t)))
    IN  IF es = {} THEN mant
        ELSE IF t[Min(es) + 1] = "-" THEN [m |-> mant.m, s |-> mant.s + X]
        ELSE IF X >= mant.s THEN [m |-> mant.m * Pow10(X - mant.s), s |-> 0]
        ELSE [m |-> mant.m, s |-> mant.s - X]

\* The amount a is printed as t: to all its digits, or to d significant ones.
Shows(t, a) == SameNumber(ShownNumber(t), a)

\* The block b is the one of record e's variant, with e's id and name, its
\* count, and its amounts as Amount(printed, stored) has them.
BlockOf(b, e, Amount(_, _)) ==
    /\ SubSeq(b, 1, 5) = <<"Employee: ", e.name, " (ID: ", e.id, ")">>
    /\ CASE e.kind = "FullTime" ->
              /\ Len(b) = 7
              /\ b[6] = "Fixed Monthly Salary: $" /\ Amount(b[7], e.salary)
         [] e.kind = "PartTime" ->
              /\ Len(b) = 11
              /\ b[6] = "Hourly Rate: $" /\ Amount(b[7], e.hourlyRate)
              /\ b[8] = "Hours Worked: " /\ NumberOf(b[9]) = e.hoursWorked
              /\ b[10] = "Total Salary: $" /\ Amount(b[11], e.salary)
         [] e.kind = "Contractual" ->
              /\ Len(b) = 11
              /\ b[6] = "Contract Payment Per Project: $"
              /\ Amount(b[7], e.paymentPerProject)
              /\ b[8] = "Projects Completed: " /\ NumberOf(b[9]) = e.projectsCompleted
              /\ b[10] = "Total Salary: $" /\ Amount(b[11], e.salary)

\* Selection 4 of A_E.cpp with a registry that is not empty prints the header
\* and then one block per record, in the order of the registry (which is the
\* order in which the adds completed: records are appended), and changes
\* nothing; the record A1, Ann Lee, 5000 is shown as in the specification; a
\* report that follows a report prints the same.
ReportOf(Amount(_, _)) ==
    (prog = "A_E" /\ pc = "menu" /\ trim(line') = <<"4">> /\ employees # <<>>) =>
         /\ Len(out') = 1 + Len(employees)
         /\ out'[1] = "Employee Payroll Report ---"
         /\ \A k \in 1..Len(employees) :
               /\ BlockOf(out'[k + 1], employees[k], Amount)
               /\ employees[k] = FullTimeEmployee(<<"A", "1">>,
                                    <<"A", "n", "n", " ", "L", "e", "e">>,
                                    [m |-> 5000, s |-> 0])
                    => out'[k + 1] =
                          <<"Employee: ", <<"A", "n", "n", " ", "L", "e", "e">>,
                            " (ID: ", <<"A", "1">>, ")",
                            "Fixed Monthly Salary: $", <<"5", "0", "0", "0">>>>
         /\ trim(line) = <<"4">> => out' = out
         /\ pc' = "menu"
         /\ employees' = employees

\* C14: a report of a registry that is not empty prints the header once and
\* one block per record in insertion order, each in its variant's format and
\* showing the id, the name and the amounts accepted when the record was
\* added; two reports with no add between them print the same.
C14_ReportShowsAccepted == [][ReportOf(Shows)]_vars

\* The amount a is printed as t to 6 significant digits: t denotes a number
\* within half a unit of a's sixth significant digit.
ShowsRounded(t, a) ==
    LET sh == ShownNumber(t)
        x  == sh.m * Pow10(a.s)
        y  == a.m * Pow10(sh.s)
        d  == IF x > y THEN x - y ELSE y - x
    IN  d * 2 * Pow10(precision - 1) <= y

\* What the code does have of C14: all of it, with every amount printed to 6
\* significant digits.
C14_ReportRounded == [][ReportOf(ShowsRounded)]_vars

\* A_E.cpp printed the report of two records.
C14_Reported ==
    /\ prog = "A_E"
    /\ pc = "menu"
    /\ trim(line) = <<"4">>
    /\ Len(employees) = 2
    /\ Len(out) = 3

\* The lines of DoubleLines that, trimmed, hold digits and at most one '.',
\* with a digit, and denote a number within the range of a double.
MoneyLines ==
    {l \in DoubleLines : LooseMoney(trim(l)) /\ InDoubleRange(trim(l))}

\* The line l, trimmed, conforms to the field asked for at prompt p.
Conforms(p, l) ==
    LET t == trim(l) IN
    CASE p = "id"     -> /\ WellFormedId(t)
                         /\ \A k \in 1..Len(employees) : employees[k].id # t
      [] p = "name"   -> NameGrammar(t)
      [] p = "double" -> l \in MoneyLines
      [] p = "int"    -> DigitString(t) /\ FitsInt(t)

\* The prompt that follows prompt p in an add of type n ("menu": the add is
\* complete).
FieldAfter(p, n) ==
    CASE p = "id"     -> "name"
      [] p = "name"   -> "double"
      [] p = "double" -> IF n = 1 THEN "menu" ELSE "int"
      [] p = "int"    -> "menu"

\* C15: an add of A_E.cpp asks for the id, the name, then the fields of its
\* variant (FullTime: the salary; PartTime, Contractual: the rate, then the
\* count).  At each prompt a conforming line is accepted and the next field
\* asked for, a line that does not conform prints a message and the same
\* prompt is repeated with nothing changed; the record is appended and
\* "Employee added!" printed exactly when the last field is accepted; an add
\* starts at the menu only, and the fields accepted stay as they are while the
\* later ones are asked for.
C15_FieldOrder ==
    [][prog = "A_E" =>
         /\ pc \in {"id", "name", "double", "int"} =>
               /\ type \in 1..3
               /\ pc = "int" => type \in {2, 3}
               /\ IF Conforms(pc, line')
                  THEN /\ pc' = FieldAfter(pc, type)
                       /\ pc' = "menu" <=> Added
                       /\ pc' = "menu" <=> out' = <<"Employee added!">>
                       /\ pc' # "menu" => out' = <<>> /\ employees' = employees
                  ELSE /\ pc' = pc
                       /\ Len(out') = 1
                       /\ out' # <<"Employee added!">>
                       /\ UNCHANGED <<employees, type, id, name, rate>>
               /\ pc' # "menu" => type' = type
               /\ (pc # "id" /\ pc' # "menu") => id' = id
               /\ (pc \in {"double", "int"} /\ pc' # "menu") => name' = name
               /\ (pc = "int" /\ pc' # "menu") => rate' = rate
         /\ pc' = "id" => pc \in {"menu", "id"}
         /\ pc = "menu" => pc' \in {"menu", "id", "exit"} /\ ~Added
         /\ out' = <<"Employee added!">> => Added]_vars

\* A contractual record was appended second, its count the last field read.
C15_Witness ==
    /\ prog = "A_E"
    /\ pc = "menu"
    /\ out = <<"Employee added!">>
    /\ Len(employees) = 2
    /\ employees[2].kind = "Contractual"
    /\ NumberOf(trim(line)) = employees[2].projectsCompleted

\* C16: with an operator who in the end types a conforming line at each
\* prompt, an add that has started (the id is asked for, k records in the
\* registry) leads to the menu with "Employee added!" printed and k + 1
\* records; and at every prompt of an add a line exists that is answered by
\* the same prompt with nothing appended, the only other step being the
\* acceptance of the field: an operator who types such lines for ever (or
\* whose input has ended, each read then giving a line that is rejected) is
\* asked for ever, and the add does not complete.
C16_AddCompletes ==
    /\ \A k \in 0..(MaxEmployees - 1) :
          (pc = "id" /\ Len(employees) = k)
             ~> (pc = "menu" /\ out = <<"Employee added!">>
                              /\ Len(employees) = k + 1)
    /\ [](pc \in {"id", "name", "double", "int"} =>
             ENABLED (Next_A_E /\ pc' = pc /\ line' = <<>>
                               /\ employees' = employees))
    /\ [][(pc \in {"id", "name", "double", "int"})
             => (pc' \in {pc, FieldAfter(pc, type)})]_vars

\* A part-time add has completed: id, name, rate and hours were accepted in
\* the end, the hours after a line that was not.
C16_Witness ==
    /\ pc = "menu"
    /\ out = <<"Employee added!">>
    /\ Len(employees) = MaxEmployees
    /\ Last(employees).kind = "PartTime"

====
